---- MODULE Spec2Model ----
(***************************************************************************)
(* State-machine model of openmdao.BaseFrame (BaseFrame.js): the frame     *)
(* registry, frame instances, the part of the DOM the frames act on, the   *)
(* dialog toolkit's effect on that DOM, and the deferred bounds-correction *)
(* callbacks scheduled by popup().                                         *)
(***************************************************************************)
EXTENDS Integers, Sequences, FiniteSets, TLC

\* ------------------------------------------------------------------ bounds
MaxUID    == 2      \* cap on openmdao.uniqueID
MaxElems  == 2      \* cap on DOM elements alive at a time (the page element included)
MaxTimers == 1      \* cap on pending setTimeout callbacks

Instances == {1, 2}       \* the frame instances (objects built by the BaseFrame constructor)

\* ------------------------------------------------------------- identifiers
\* An id is a pair <<name, n>>: a supplied id is <<name, 0>>, a generated one
\* "BaseFrame"+n is <<"BaseFrame", n>>.
NullId    == <<"null", 0>>          \* id argument null / undefined
EmptyId   == <<"", 0>>              \* id argument ""
PageId    == <<"x", 0>>             \* id of an element present in the page
MissingId == <<"y", 0>>             \* id of no element of the page
GenId(n)  == <<"BaseFrame", n>>
IdArgs    == {NullId, EmptyId, PageId, MissingId}
FalsyId(i) == i \in {NullId, EmptyId}

\* ------------------------------------------------------------------ titles
NullTitle  == "<null>"              \* title argument null
NoTitle    == "<none>"              \* an element that is no dialog shows no title
InitTitles == {"A"}
SetTitles  == {NullTitle, "", "X"}
\* a test that takes the empty string for a title
Truthy_Empty(t) == t # NullTitle

Truthy(t)  == t \notin {NullTitle, ""}

\* --------------------------------------------------------------- DOM nodes
\* A node is a pair <<kind, n>>.
Null     == <<"null", 0>>           \* JS null
EmptySel == <<"empty", 0>>          \* a jQuery object of length 0
Detached == <<"none", 0>>           \* no parent node
Body     == <<"body", 0>>
Pane     == <<"pane", 0>>           \* the page container holding the page element
Wrap(e)  == <<"wrap", e>>           \* the wrapper .ui-dialog the toolkit built around element e
DeadWrap == <<"wrap", 0>>           \* a wrapper the toolkit has removed from the document

Prior     == <<"prior", 0>>         \* the page's own HTML under the element
Empty     == <<"empty", 0>>         \* no child content
MenuOf(f) == <<"menu", f>>          \* menu bar whose pop-out button is bound to frame f

\* -------------------------------------------------------------- geometry
InnerHeight == 5                    \* window.innerHeight
InnerWidth  == 10                   \* window.innerWidth
Pad         == 2                    \* outer size minus content size of the element
NaturalSizes == {<<2, 4>>, <<5, 10>>}   \* <<height, width>> the auto-sized content takes
OffTops   == {-1, 1, 3}             \* offsets dlg.offset() may report for a rendered element
OffLefts  == {-1, 2, 8}

VARIABLES
    uniqueID,   \* openmdao.uniqueID (0: undefined)
    frames,     \* openmdao.frames: id -> frame instance
    id,         \* this.id    per instance
    elm,        \* this.elm   per instance (0: null, else a DOM element)
    par,        \* this.par   per instance (Null, EmptySel or a node)
    title,      \* this.title per instance
    menu,       \* this.menu  per instance (TRUE: a menu descriptor)
    dom,        \* sequence of DOM elements
    timers,     \* pending setTimeout callbacks, each closed over its dlg element
    last,       \* observation of the last operation executed
    generated,  \* history: ids generated so far
    closed      \* per instance: close() has run since its last init()

vars == <<uniqueID, frames, id, elm, par, title, menu, dom, timers,
          last, generated, closed>>

Elems == DOMAIN dom

\* ------------------------------------------------------------ DOM queries
IsDialog(d, e) == d[e].dlg

\* the element hangs under the body: directly, in the page's pane, or in the
\* wrapper of its open dialog (which the toolkit appends to the body)
InDocument(d, e) ==
    \/ d[e].parent \in {Body, Pane}
    \/ d[e].parent = Wrap(e) /\ IsDialog(d, e)

\* jQuery("#"+id): the elements of the document carrying that id attribute
Lookup(d, i) == {e \in DOMAIN d : d[e].attr = i /\ InDocument(d, e)}

\* elm.parent(): the parent node, or an empty jQuery object for a detached element
ParentOf(d, e) == IF d[e].parent = Detached THEN EmptySel ELSE d[e].parent

PageElement ==
    [attr |-> PageId, parent |-> Pane, dlg |-> FALSE, dlgTitle |-> NoTitle,
     visible |-> TRUE, content |-> Prior, size |-> <<2, 4>>]

\* jQuery('<div id='+this.id+'></div>')
NewDiv(i) ==
    [attr |-> i, parent |-> Detached, dlg |-> FALSE, dlgTitle |-> NoTitle,
     visible |-> TRUE, content |-> Empty, size |-> <<0, 0>>]

\* An element that is not in the document and that no frame and no pending
\* callback refers to can never be reached again: its slot is cleared and
\* is the first to be taken by the next element created.
Gone ==
    [attr |-> NullId, parent |-> Detached, dlg |-> FALSE, dlgTitle |-> NoTitle,
     visible |-> FALSE, content |-> Empty, size |-> <<0, 0>>]

Live(d, el, ts, e) ==
    \/ InDocument(d, e)
    \/ \E f \in Instances : el[f] = e
    \/ \E n \in DOMAIN ts : ts[n] = e

Collect(d, el, ts) == [e \in DOMAIN d |-> IF Live(d, el, ts, e) THEN d[e] ELSE Gone]

FreeSlot(d) ==
    IF \E e \in DOMAIN d : d[e] = Gone
    THEN CHOOSE e \in DOMAIN d : d[e] = Gone /\ \A x \in 1..(e - 1) : d[x] # Gone
    ELSE Len(d) + 1

Put(d, e, r) == IF e \in DOMAIN d THEN [d EXCEPT ![e] = r] ELSE Append(d, r)

\* ------------------------------------------------- dialog toolkit effects
\* dlg.dialog({...}) on an element: a first call builds the wrapper, appends it
\* to the body, moves the element into it and opens it; a call on an element
\* that already is a dialog only sets the options given.
DialogInit(d, e, t) ==
    IF IsDialog(d, e)
    THEN [d EXCEPT ![e].dlgTitle = t, ![e].visible = TRUE]
    ELSE [d EXCEPT ![e].dlg = TRUE, ![e].parent = Wrap(e),
                   ![e].dlgTitle = t, ![e].visible = TRUE]

\* dlg.dialog({ position: [..] }): the same call with only a position option;
\* a first call on a non-dialog builds a dialog with the default (empty) title
DialogPosition(d, e) ==
    IF IsDialog(d, e)
    THEN d
    ELSE [d EXCEPT ![e].dlg = TRUE, ![e].parent = Wrap(e),
                   ![e].dlgTitle = "", ![e].visible = TRUE]

\* a destroy that leaves the dialog in place
DialogDestroy_Keep(d, e) == d

\* elm.dialog('destroy'): the wrapper is removed and the element is left
\* hidden under the body; nothing happens on an element that is no dialog
DialogDestroy(d, e) ==
    IF IsDialog(d, e)
    THEN [d EXCEPT ![e].dlg = FALSE, ![e].parent = Body,
                   ![e].dlgTitle = NoTitle, ![e].visible = FALSE]
    ELSE d

\* elm.dialog('option', 'title', title)
DialogSetTitle(d, e, t) ==
    IF IsDialog(d, e) THEN [d EXCEPT ![e].dlgTitle = t] ELSE d

\* the toolkit reads a position pair as [x, y]: x from the left, y from the top
ToolkitPosition(pair) == [top |-> pair[2], left |-> pair[1]]

\* ------------------------------------------------------------------ popup
\* lines 115-120: content height/width above 80% of the window are cut to 80%
FitSize(sz) ==
    << IF sz[1] * 5 > InnerHeight * 4 THEN (InnerHeight * 4) \div 5 ELSE sz[1],
       IF sz[2] * 5 > InnerWidth * 4  THEN (InnerWidth * 4) \div 5  ELSE sz[2] >>

\* a popup that schedules no callback
Schedule_None(ts, e) == ts

\* setTimeout(function() {...}, 120)
Schedule(ts, e) == Append(ts, e)

\* the DOM after popup(t) on element e whose auto-sized content takes size sz
PopupDom(d, e, t, sz) ==
    LET d1 == DialogInit(d, e, t)
    IN  [d1 EXCEPT ![e].size = FitSize(sz)]

\* ------------------------------------------------------------------- init
Init ==
    /\ uniqueID = 0
    /\ frames = <<>>
    /\ id = [f \in Instances |-> NullId]
    /\ elm = [f \in Instances |-> 0]
    /\ par = [f \in Instances |-> Null]
    /\ title = [f \in Instances |-> ""]
    /\ menu = [f \in Instances |-> FALSE]
    /\ dom = <<PageElement>>
    /\ timers = <<>>
    /\ last = [op |-> "none", popups |-> 0]
    /\ generated = {}
    /\ closed = [f \in Instances |-> FALSE]

\* a counter that restarts at 1 on every call
NextUniqueID_Restart(u) == 1

\* lines 32-37
NextUniqueID(u) == IF u # 0 THEN u + 1 ELSE 1

\* a test that never finds the element
ElmExists_Never(e) == FALSE

\* line 48: this.elm && this.elm.length > 0
ElmExists(e) == e # 0

\* a registration that drops the other entries
Register_Only(reg, i, f) == (i :> f)

\* line 45: openmdao.frames[this.id] = this
Register(reg, i, f) ==
    IF i \in DOMAIN reg THEN [reg EXCEPT ![i] = f] ELSE reg @@ (i :> f)

\* lines 57-70: html("") and, with a menu, the menu bar and its pop-out button
SetContent(d, e, f, m) == [d EXCEPT ![e].content = IF m THEN MenuOf(f) ELSE Empty]

\* openmdao.BaseFrame.prototype.init(id, title, menu)
InitFrame(f, i, t, m, sizes) ==
    \E found \in (IF FalsyId(i) THEN {elm[f]}
                  ELSE IF Lookup(dom, i) = {} THEN {0} ELSE Lookup(dom, i)) :
    \E sz \in (IF ElmExists(found) THEN {<<0, 0>>} ELSE sizes) :
    LET uid1   == IF FalsyId(i) THEN NextUniqueID(uniqueID) ELSE uniqueID
        id1    == IF FalsyId(i) THEN GenId(uid1) ELSE i
        exists == ElmExists(found)
        e1     == IF exists THEN found ELSE FreeSlot(dom)
        par1   == IF exists THEN ParentOf(dom, found) ELSE Null
        d0     == IF exists THEN dom ELSE Put(dom, e1, NewDiv(id1))
        d1     == IF exists THEN d0
                  ELSE PopupDom(d0, e1, t, sz)
    IN  /\ uid1 <= MaxUID
        /\ ~exists => e1 <= MaxElems /\ Len(timers) < MaxTimers
        /\ uniqueID' = uid1
        /\ id' = [id EXCEPT ![f] = id1]
        /\ title' = [title EXCEPT ![f] = t]
        /\ menu' = [menu EXCEPT ![f] = m]
        /\ elm' = [elm EXCEPT ![f] = e1]
        /\ par' = [par EXCEPT ![f] = par1]
        /\ frames' = Register(frames, id1, f)
        /\ timers' = IF exists THEN timers ELSE Schedule(timers, e1)
        /\ dom' = Collect(SetContent(d1, e1, f, m), elm', timers')
        /\ generated' = IF FalsyId(i) THEN generated \cup {id1} ELSE generated
        /\ last' = [op |-> "init", f |-> f, noId |-> FalsyId(i),
                    matched |-> (~FalsyId(i) /\ Lookup(dom, i) # {}),
                    synth |-> ~exists, popups |-> IF exists THEN 0 ELSE 1]
        /\ closed' = [closed EXCEPT ![f] = FALSE]

\* openmdao.BaseFrame.prototype.popup(title), called on an initialized frame
Popup(f, t, sizes) ==
    /\ elm[f] # 0
    /\ Len(timers) < MaxTimers
    /\ \E sz \in sizes :
          dom' = PopupDom(dom, elm[f], t, sz)
    /\ timers' = Schedule(timers, elm[f])
    /\ last' = [op |-> "popup", f |-> f, popups |-> 1]
    /\ UNCHANGED <<uniqueID, frames, id, elm, par, title, menu,
                   generated, closed>>

\* line 68: a click on the pop-out button of a menu bar shown in the page
PopOutClick(b, sizes) ==
    /\ b \in Elems
    /\ dom[b].content[1] = "menu"
    /\ InDocument(dom, b) /\ dom[b].visible
    /\ LET f == dom[b].content[2] IN
       /\ Len(timers) < MaxTimers
       /\ \E sz \in sizes :
             dom' = PopupDom(dom, elm[f], title[f], sz)
       /\ timers' = Schedule(timers, elm[f])
       /\ last' = [op |-> "click", f |-> f, popups |-> 1]
    /\ UNCHANGED <<uniqueID, frames, id, elm, par, title, menu,
                   generated, closed>>

\* ------------------------------------------------------------------ close
\* line 165: if (this.par): null is falsy, every jQuery object is truthy
HasPar(p) == p # Null

\* elm.appendTo(par): an empty jQuery object gives no node to append to
AppendTo(d, e, p) == IF p = EmptySel THEN d ELSE [d EXCEPT ![e].parent = p]

\* 'destroy' removes the wrapper of a dialog: a this.par that is that wrapper
\* from then on denotes a removed node (no assignment to this.par is made)
Retire(pr, d, e) ==
    [g \in Instances |-> IF IsDialog(d, e) /\ pr[g] = Wrap(e) THEN DeadWrap ELSE pr[g]]

\* lines 165-173
CloseDom(d, e, p) ==
    IF HasPar(p)
    THEN [AppendTo(DialogDestroy(d, e), e, p) EXCEPT ![e].visible = TRUE]
    ELSE [DialogDestroy(d, e) EXCEPT ![e].parent = Detached]

\* openmdao.BaseFrame.prototype.close(), on an initialized frame without an
\* own 'destructor' property (no BaseFrame instance has one)
Close(f) ==
    /\ elm[f] # 0
    /\ par' = Retire(par, dom, elm[f])
    /\ dom' = CloseDom(dom, elm[f], par'[f])
    /\ closed' = [closed EXCEPT ![f] = TRUE]
    /\ last' = [op |-> "close", f |-> f, popups |-> 0]
    /\ UNCHANGED <<uniqueID, frames, id, elm, title, menu,
                   timers, generated>>

\* --------------------------------------------------------------- setTitle
\* openmdao.BaseFrame.prototype.setTitle(title); on a frame whose elm is
\* null the assignment of line 154 stands and line 155 throws
SetTitle(f, t) ==
    /\ title' = IF Truthy(t) THEN [title EXCEPT ![f] = t] ELSE title
    /\ dom' = IF Truthy(t) /\ elm[f] # 0 THEN DialogSetTitle(dom, elm[f], t) ELSE dom
    /\ last' = [op |-> "setTitle", f |-> f, arg |-> t, popups |-> 0]
    /\ UNCHANGED <<uniqueID, frames, id, elm, par, menu, timers,
                   generated, closed>>

\* ----------------------------------------------------------------- update
\* the orders in which the keys of a registry may be enumerated
RECURSIVE Perms(_)
Perms(S) ==
    IF S = {} THEN {<<>>}
    ELSE UNION {{<<k>> \o p : p \in Perms(S \ {k})} : k \in S}

RECURSIVE OneOrder(_)
OneOrder(S) ==
    IF S = {} THEN <<>>
    ELSE LET k == CHOOSE k \in S : TRUE IN <<k>> \o OneOrder(S \ {k})

\* for-in enumerates the keys in an order the language leaves open; when no
\* registered frame throws the outcome is the same for every order, and one
\* order stands for all
Orders(reg, thr) ==
    IF \E k \in DOMAIN reg : reg[k] \in thr
    THEN Perms(DOMAIN reg)
    ELSE {OneOrder(DOMAIN reg)}

\* a broadcast that goes on after an update() has thrown
Broadcast_Isolated(ks, reg, thr) == ks

\* jQuery.each over the registry keys ks calling frame.update(); thr is the set
\* of instances whose update() override throws. The result is the sequence of
\* keys whose frame's update() was invoked.
RECURSIVE Broadcast(_, _, _)
Broadcast(ks, reg, thr) ==
    IF ks = <<>> THEN <<>>
    ELSE IF reg[Head(ks)] \in thr THEN <<Head(ks)>>
    ELSE <<Head(ks)>> \o Broadcast(Tail(ks), reg, thr)

\* openmdao.update(), once the registry exists
UpdateAll(thr) ==
    /\ DOMAIN frames # {}
    /\ \E ks \in Orders(frames, thr) :
       LET inv == Broadcast(ks, frames, thr) IN
       last' = [op |-> "update", thr |-> thr, popups |-> 0,
                invoked |-> {inv[n] : n \in DOMAIN inv},
                count |-> [f \in Instances |->
                             Cardinality({n \in DOMAIN inv : frames[inv[n]] = f})],
                thrower |-> IF inv # <<>> /\ frames[inv[Len(inv)]] \in thr
                            THEN inv[Len(inv)] ELSE NullId]
    /\ UNCHANGED <<uniqueID, frames, id, elm, par, title, menu, dom,
                   timers, generated, closed>>

\* ------------------------------------------- deferred bounds correction
\* lines 132-143, one axis
Clamp(v, size, limit) ==
    IF v < 0 THEN 0
    ELSE IF v + size > limit THEN limit - size
    ELSE v

Rendered(d, e) == InDocument(d, e) /\ d[e].visible

OuterSize(d, e) == <<d[e].size[1] + Pad, d[e].size[2] + Pad>>

\* lines 144-146: the position pair handed to the toolkit, when one is
HandedPair(off, top, left) ==
    IF top # off[1] \/ left # off[2] THEN <<top, left>> ELSE <<>>

\* the setTimeout callback of popup(), lines 128-148: off and outer are what
\* dlg.offset() and dlg.outerHeight()/outerWidth() report when it runs; an
\* element that is not rendered reports offset (0,0) and either no size or
\* the size its style holds
TimerFire(offs) ==
    /\ timers # <<>>
    /\ LET e == Head(timers) IN
       \E off \in (IF Rendered(dom, e) THEN offs ELSE {<<0, 0>>}) :
       \E outer \in (IF Rendered(dom, e) THEN {OuterSize(dom, e)}
                     ELSE {<<0, 0>>, OuterSize(dom, e)}) :
       LET top  == Clamp(off[1], outer[1], InnerHeight)
           left == Clamp(off[2], outer[2], InnerWidth)
           pair == HandedPair(off, top, left)
       IN  /\ dom' = Collect(IF pair # <<>>
                                  THEN DialogPosition(dom, e)
                                  ELSE dom,
                              elm, Tail(timers))
           /\ last' = [op |-> "timer", wasDialog |-> IsDialog(dom, e),
                       off |-> off, outer |-> outer, pair |-> pair, popups |-> 0]
    /\ timers' = Tail(timers)
    /\ UNCHANGED <<uniqueID, frames, id, elm, par, title, menu,
                   generated, closed>>

\* ------------------------------------------------------------------- spec
\* One step of the program and its environment, the inputs drawn from the
\* given sets: init calls <<instance, id, menu>>, instances the other methods
\* are called on, natural content sizes, setTitle arguments, reported offsets,
\* sets of instances whose update() override throws
NextOver(inits, fs, sizes, titles, offs, thrs) ==
    \/ \E a \in inits, t \in InitTitles : InitFrame(a[1], a[2], t, a[3], sizes)
    \/ \E f \in fs, t \in InitTitles : Popup(f, t, sizes)
    \/ \E b \in Elems : PopOutClick(b, sizes)
    \/ \E f \in fs : Close(f)
    \/ \E f \in fs, t \in titles : SetTitle(f, t)
    \/ \E thr \in thrs : UpdateAll(thr)
    \/ TimerFire(offs)

SmallSize == {<<2, 4>>}
Offsets   == OffTops \X OffLefts
InOut     == {<<1, 2>>, <<3, 8>>}   \* an offset inside the window and one outside

\* one frame instance through its whole lifecycle, every kind of id argument
Next == NextOver({1} \X IdArgs \X BOOLEAN, {1}, SmallSize, {NullTitle}, InOut, {{}})

Spec == Init /\ [][Next]_vars

\* two frame instances sharing the registry and the page element; the second
\* is built on the page element only and has an update() override that may
\* throw, the first is the one the other operations are called on
NextReg ==
    NextOver({<<1, PageId, TRUE>>, <<1, NullId, TRUE>>, <<2, PageId, FALSE>>},
             {1}, SmallSize, {NullTitle}, {<<1, 2>>}, {{}, {2}})

SpecReg == Init /\ [][NextReg]_vars

\* one frame instance, every setTitle argument
NextTitle ==
    NextOver({1} \X {NullId, PageId} \X {TRUE}, {1}, SmallSize, SetTitles,
             {<<1, 2>>}, {{}})

SpecTitle == Init /\ [][NextTitle]_vars

\* one frame instance, every content size and reported offset
NextGeom ==
    NextOver({1} \X {NullId, PageId} \X {TRUE}, {1}, NaturalSizes, {NullTitle},
             Offsets, {{}})

SpecGeom == Init /\ [][NextGeom]_vars

\* ================================================================= claims

\* the position the dialog ends at once the callback has run: the handed
\* pair as the toolkit reads it, or the reported offset when none was handed
FinalPosition ==
    IF last.pair # <<>> THEN ToolkitPosition(last.pair)
    ELSE [top |-> last.off[1], left |-> last.off[2]]

\* C1: after the deferred corrective pass has run on a dialog whose outer
\* width and height fit the window, the position finally applied has
\* top >= 0, left >= 0, top + height <= window height and left + width <=
\* window width, whatever offset the dialog was reported at.
C1_FinalPositionInWindow ==
    (last.op = "timer" /\ last.wasDialog
        /\ last.outer[1] <= InnerHeight /\ last.outer[2] <= InnerWidth)
    => /\ FinalPosition.top >= 0
       /\ FinalPosition.left >= 0
       /\ FinalPosition.top + last.outer[1] <= InnerHeight
       /\ FinalPosition.left + last.outer[2] <= InnerWidth

\* C2: after close(), a frame with a recorded parent has its element no
\* longer a dialog, a visible child of that parent and in the document; a
\* frame without one has its element no longer a dialog and out of the document.
C2_CloseOutcome ==
    last.op = "close" =>
        LET f == last.f
            e == elm[f]
        IN  IF par[f] # Null
            THEN /\ ~IsDialog(dom, e)
                 /\ dom[e].parent = par[f]
                 /\ dom[e].visible
                 /\ InDocument(dom, e)
            ELSE ~IsDialog(dom, e) /\ ~InDocument(dom, e)

\* C3: every init() given no id, or an id matching no element of the document,
\* calls popup() exactly once, on a newly synthesized element, and records
\* par = null, also on an instance that was initialized before.
C3_InitWithoutElementPopsUp ==
    (last.op = "init" /\ (last.noId \/ ~last.matched))
    => /\ last.popups = 1
       /\ last.synth
       /\ par[last.f] = Null
       /\ IsDialog(dom, elm[last.f])

\* C4: an init() given no id leaves the frame with the id "BaseFrame"+n of a
\* strictly increased counter, an id no earlier init() generated, and the
\* registry maps that id to the frame.
C4_FreshGeneratedId ==
    [][ (last'.op = "init" /\ last'.noId) =>
            LET f == last'.f IN
            /\ uniqueID' > uniqueID
            /\ id'[f] = GenId(uniqueID')
            /\ id'[f] \notin generated
            /\ id'[f] \in DOMAIN frames'
            /\ frames'[id'[f]] = f ]_vars

C4_Witness ==
    /\ last.op = "init" /\ last.noId
    /\ uniqueID = 2
    /\ GenId(1) \in DOMAIN frames
    /\ frames[GenId(2)] = last.f

\* C5: setTitle("") and setTitle(null) leave the stored title and the title
\* the dialog displays unchanged; setTitle of a non-empty string sets the
\* stored title to it and, the element being a dialog, the displayed title too.
C5_SetTitle ==
    [][ last'.op = "setTitle" =>
            LET f == last'.f
                t == last'.arg
            IN  IF t \notin {NullTitle, ""}
                THEN /\ title'[f] = t
                     /\ (elm[f] # 0 /\ IsDialog(dom, elm[f]))
                            => dom'[elm[f]].dlgTitle = t
                ELSE title' = title /\ dom' = dom ]_vars

C5_Witness ==
    /\ last.op = "setTitle" /\ last.arg = "X"
    /\ title[last.f] = "X"
    /\ elm[last.f] # 0
    /\ IsDialog(dom, elm[last.f])
    /\ dom[elm[last.f]].dlgTitle = "X"

KeysOf(f) == {k \in DOMAIN frames : frames[k] = f}

\* C7 as stated: a broadcast no update() of which throws invokes update()
\* exactly once on every frame in the registry.
C7_OncePerFrame ==
    (last.op = "update" /\ last.thrower = NullId) =>
        \A f \in Instances : KeysOf(f) # {} => last.count[f] = 1

\* C7 amended: the broadcast invokes update() once per registry entry, hence
\* as many times on a frame as it has keys; when an update() throws, the
\* exception leaves the broadcast and the entries not yet reached, among them
\* every other throwing frame's, are not invoked.
C7_OncePerEntry ==
    last.op = "update" =>
        /\ last.invoked \subseteq DOMAIN frames
        /\ \A f \in Instances :
              last.count[f] = Cardinality(KeysOf(f) \cap last.invoked)
        /\ IF \A k \in DOMAIN frames : frames[k] \notin last.thr
           THEN last.thrower = NullId /\ last.invoked = DOMAIN frames
           ELSE /\ last.thrower \in last.invoked
                /\ \A k \in last.invoked :
                      frames[k] \in last.thr <=> k = last.thrower

C7_Witness ==
    /\ last.op = "update"
    /\ last.thrower # NullId
    /\ last.invoked # DOMAIN frames
    /\ \E f \in Instances : Cardinality(KeysOf(f)) = 2

C9_OneCallbackNoCancel ==
    /\ [][ /\ last'.op \in {"init", "popup", "click"} =>
                timers' = (IF last'.popups = 1
                           THEN Append(timers, elm'[last'.f]) ELSE timers)
           /\ last'.op \in {"close", "setTitle", "update"} => timers' = timers
           /\ last'.op = "timer" => timers # <<>> /\ timers' = Tail(timers) ]_vars
    /\ [](timers # <<>> => ENABLED TimerFire(InOut))

C9_Witness ==
    /\ last.op = "timer" /\ ~last.wasDialog
    /\ \E f \in Instances : closed[f] /\ ~InDocument(dom, elm[f])

\* C10 as stated: every frame that was closed is still in the registry under
\* the id it was registered with.
C10_ClosedFrameStaysRegistered ==
    \A f \in Instances :
        closed[f] => id[f] \in DOMAIN frames /\ frames[id[f]] = f

\* C10 amended: close(), popup(), setTitle(), update() and the deferred
\* callback leave the registry unchanged and init() changes only the entry of
\* the id it registers, so the keys only grow; a closed frame's id stays a
\* key, mapped to that frame until an init() with the same id overwrites it.
C10_RegistryOnlyGrows ==
    [][ /\ last'.op # "init" => frames' = frames
        /\ last'.op = "init" =>
              /\ DOMAIN frames' = DOMAIN frames \cup {id'[last'.f]}
              /\ \A k \in DOMAIN frames : k # id'[last'.f] => frames'[k] = frames[k]
        /\ \A f \in Instances : closed'[f] => id'[f] \in DOMAIN frames' ]_vars

C10_Witness ==
    \E f \in Instances :
        /\ closed[f]
        /\ id[f] \in DOMAIN frames
        /\ frames[id[f]] # f
        /\ Cardinality(DOMAIN frames) >= 2

====
